---- MODULE Spec2Model ----
(***************************************************************************)
(* Model of go-autumn-config (package auconfig, setup.go): the setup       *)
(* entry points Setup, SetupWithOverriddenConfigPath, SetupDefaultsOnly    *)
(* and Load, the package-level state they write, and the parts of          *)
(* spf13/pflag and spf13/viper they drive (flag set, defaults, environment *)
(* bindings, flag bindings, merged file configuration).                    *)
(*                                                                         *)
(* Text (keys, flag names, environment variable names, paths) is a         *)
(* sequence of one-character strings, so that the regular-expression       *)
(* replacement of setupEnv is computed character by character.             *)
(* A configuration value is a record [kind, val]: the Go dynamic type and  *)
(* the printed value.                                                      *)
(***************************************************************************)
EXTENDS Integers, Sequences, FiniteSets, TLC

\* ------------------------------------------------------------------ bounds
\* longest registry the application hands to a setup call
MaxItems == 2

\* ------------------------------------------------------------------- text
EmptyText == << >>

ConfigPrefix == <<"C", "O", "N", "F", "I", "G", "_">>

\* the character class [a-z0-9] of the pattern `[^a-z0-9]`
LowerAlnum ==
    {"a", "b", "c", "d", "e", "f", "g", "h", "i", "j", "k", "l", "m",
     "n", "o", "p", "q", "r", "s", "t", "u", "v", "w", "x", "y", "z",
     "0", "1", "2", "3", "4", "5", "6", "7", "8", "9"}

UpperLetters ==
    {"A", "B", "C", "D", "E", "F", "G", "H", "I", "J", "K", "L", "M",
     "N", "O", "P", "Q", "R", "S", "T", "U", "V", "W", "X", "Y", "Z"}

\* mutant: the pattern `[^a-zA-Z0-9]`
ReplaceAllStringKeepUpper(s) ==
    [i \in 1..Len(s) |-> IF s[i] \in LowerAlnum \cup UpperLetters THEN s[i] ELSE "_"]

\* re.ReplaceAllString(s, "_") for re = `[^a-z0-9]`
ReplaceAllString(s) ==
    [i \in 1..Len(s) |-> IF s[i] \in LowerAlnum THEN s[i] ELSE "_"]

FlagConfigPath == <<"c", "o", "n", "f", "i", "g", "-", "p", "a", "t", "h">>
FlagSecretsPath == <<"s", "e", "c", "r", "e", "t", "s", "-", "p", "a", "t", "h">>

KeyServerPort == <<"s", "e", "r", "v", "e", "r", ".", "p", "o", "r", "t">>
KeyUpper == <<"S", "e", "r", "v", "e", "r", ".", "P", "o", "r", "t">>
KeyProfiles == <<"p", "r", "o", "f", "i", "l", "e", "s">>
NamePort == <<"p", "o", "r", "t">>
NamePORT == <<"P", "O", "R", "T">>
DirEtc == <<"/", "e", "t", "c">>
DirRun == <<"/", "r", "u", "n">>

\* ------------------------------------------------------------- value kinds
\* the dynamic types the type switch of initializeFlags gives a flag to
SupportedKinds ==
    {"string", "int", "int8", "int16", "int32",
     "uint", "uint8", "uint16", "uint32", "bool", "[]string"}

IsSupported(default) == default.kind \in SupportedKinds

\* the value each pflag constructor is called with in initializeFlags
ZeroValue(kind) ==
    CASE kind = "string" -> [kind |-> "string", val |-> ""]
      [] kind = "bool" -> [kind |-> "bool", val |-> "false"]
      [] kind = "[]string" -> [kind |-> "[]string", val |-> "[]"]
      [] OTHER -> [kind |-> kind, val |-> "0"]

\* -------------------------------------------------------------- callbacks
\* the package's own handlers, the initial values of failFunction/warnFunction
PkgFail == "fail"
PkgWarn == "warn"
\* handlers an application passes to a setup call: `panic` (the README's
\* example) does not return, a recording handler (tests) does
CallerFailFuncs == {"panic", "recordFail"}
CallerWarnFuncs == {"log.Print", "recordWarn"}
Callbacks == {<<"panic", "log.Print">>, <<"recordFail", "recordWarn">>}

FailFuncReturns(fn) == fn = "recordFail"

\* ------------------------------------------------------------------- items
NoValidation == "ConfigNeedsNoValidation"
PortValidation == "checkValidPortNumber"

\* ConfigItemProfile of the package
ConfigItemProfile ==
    [Key |-> KeyProfiles,
     Default |-> [kind |-> "[]string", val |-> "[]"],
     Description |-> "list of profiles, separate by spaces in environment or command line parameters",
     EnvName |-> EmptyText,
     FlagName |-> EmptyText,
     Validate |-> NoValidation]

\* the README's server.port item
ItemPort ==
    [Key |-> KeyServerPort,
     Default |-> [kind |-> "uint", val |-> "8080"],
     Description |-> "port to listen on, defaults to 8080 if not set",
     EnvName |-> EmptyText,
     FlagName |-> EmptyText,
     Validate |-> PortValidation]

\* a second declaration of server.port: explicit names, a default the
\* validator rejects
ItemPortLow ==
    [Key |-> KeyServerPort,
     Default |-> [kind |-> "uint", val |-> "80"],
     Description |-> "privileged port",
     EnvName |-> NamePORT,
     FlagName |-> NamePort,
     Validate |-> PortValidation]

\* upper-case letters in the key, boolean default true
ItemUpper ==
    [Key |-> KeyUpper,
     Default |-> [kind |-> "bool", val |-> "true"],
     Description |-> "open the server port",
     EnvName |-> EmptyText,
     FlagName |-> EmptyText,
     Validate |-> NoValidation]

\* a structured default (README: TopLevelStructuredConfig{}), declared under
\* the key ConfigItemProfile also uses
ItemStruct ==
    [Key |-> KeyProfiles,
     Default |-> [kind |-> "struct", val |-> "{}"],
     Description |-> "example for a config key that contains a whole structure",
     EnvName |-> EmptyText,
     FlagName |-> EmptyText,
     Validate |-> NoValidation]

\* an item with an empty key
ItemNoKey ==
    [Key |-> EmptyText,
     Default |-> [kind |-> "string", val |-> ""],
     Description |-> "no key",
     EnvName |-> EmptyText,
     FlagName |-> EmptyText,
     Validate |-> NoValidation]

ItemPool == {ConfigItemProfile, ItemPort, ItemPortLow, ItemUpper, ItemStruct, ItemNoKey}

Registries == UNION {[1..n -> ItemPool] : n \in 0..MaxItems}

\* -------------------------------------------------------------- the state
VARIABLES
    registry,                   \* the application's item list (fixed per process)
    configItems,                \* var configItems
    failFunction,               \* var failFunction
    warnFunction,               \* var warnFunction
    configPath,                 \* var configPath
    secretsPath,                \* var secretsPath
    configItemKeysWithNoFlags,  \* var configItemKeysWithNoFlags (its key set)
    flags,                      \* pflag.CommandLine: name -> [kind, def, value, changed]
    vDefaults,                  \* viper: key -> default value
    vEnv,                       \* viper: key -> bound environment variable name
    vPFlags,                    \* viper: key -> name of the bound flag
    vConfig,                    \* viper: key -> value read from the files
    osEnv,                      \* process environment: name -> value
    osFiles,                    \* the files secrets.* and config.*: key -> value
    call,                       \* the most recent call: [op, outcome, twice]
    trace                       \* what the most recent call did, in order

vars == <<registry, configItems, failFunction, warnFunction, configPath,
          secretsPath, configItemKeysWithNoFlags, flags, vDefaults, vEnv,
          vPFlags, vConfig, osEnv, osFiles, call, trace>>

EmptyMap == [x \in {} |-> x]

\* one entry of trace
Ev(ev, fn, key, name, idx, err) ==
    [ev |-> ev, fn |-> fn, key |-> key, name |-> name, idx |-> idx, err |-> err]

\* the mutable program state a call works on
World ==
    [configItems |-> configItems,
     failFunction |-> failFunction,
     warnFunction |-> warnFunction,
     configPath |-> configPath,
     secretsPath |-> secretsPath,
     noFlags |-> configItemKeysWithNoFlags,
     flags |-> flags,
     vDefaults |-> vDefaults,
     vEnv |-> vEnv,
     vPFlags |-> vPFlags,
     vConfig |-> vConfig,
     osEnv |-> osEnv,
     osFiles |-> osFiles,
     trace |-> << >>,
     panicked |-> FALSE]

Log(w, e) == [w EXCEPT !.trace = Append(@, e)]

\* a Go panic unwinding the call
Panic(w, err) ==
    [Log(w, Ev("panic", "", EmptyText, EmptyText, 0, err)) EXCEPT !.panicked = TRUE]

\* ------------------------------------------------------------------ pflag
\* FlagSet.AddFlag: registering a name a second time panics
AddFlag(w, name, zero, target, idx) ==
    IF name \in DOMAIN w.flags
    THEN Panic(w, "flag redefined")
    ELSE Log([w EXCEPT !.flags = (name :> [kind |-> zero.kind, def |-> zero,
                                             value |-> zero, changed |-> FALSE,
                                             target |-> target]) @@ @],
             Ev("registerFlag", "", EmptyText, name, idx, ""))

\* pflag.StringVar(&configPath, ...) / pflag.StringVar(&secretsPath, ...):
\* the variable takes the default before the flag is added
StringVar(w, target, name, value) ==
    LET w1 == IF target = "configPath"
              THEN [w EXCEPT !.configPath = value]
              ELSE [w EXCEPT !.secretsPath = value]
    IN AddFlag(w1, name, [kind |-> "string", val |-> value], target, 0)

\* the value a user passes for a flag of the given kind
ArgValue(kind) ==
    CASE kind = "string" -> "/opt"
      [] kind = "bool" -> "false"
      [] kind = "[]string" -> "[dev]"
      [] OTHER -> "6000"

\* os.Args as the run sees it: args.n says the flags of the first n items of
\* the registry are passed, args.paths says --config-path and --secrets-path
\* are; only flags that are registered are passed (pflag exits the process on
\* any other)
Argv(w, items, args) ==
    ({IF items[i].FlagName = EmptyText THEN items[i].Key ELSE items[i].FlagName :
          i \in 1..args.n}
       \cup (IF args.paths THEN {FlagConfigPath, FlagSecretsPath} ELSE {}))
    \cap DOMAIN w.flags

\* pflag.Parse()
Parse(w, passed) ==
    LET set(n) == [w.flags[n] EXCEPT
                     !.value = [kind |-> w.flags[n].kind, val |-> ArgValue(w.flags[n].kind)],
                     !.changed = TRUE]
        fl == [n \in DOMAIN w.flags |-> IF n \in passed THEN set(n) ELSE w.flags[n]]
        pathOf(target, old) ==
            IF \E n \in passed : w.flags[n].target = target
            THEN <<"/", "o", "p", "t">> ELSE old
    IN Log([w EXCEPT !.flags = fl,
                     !.configPath = pathOf("configPath", @),
                     !.secretsPath = pathOf("secretsPath", @)],
           Ev("parse", "", EmptyText, EmptyText, 0, ""))

\* ------------------------------------------------------------------ viper
\* viper.SetDefault(key, value)
SetDefault(w, key, value, idx) ==
    Log([w EXCEPT !.vDefaults = (key :> value) @@ @],
        Ev("setDefault", "", key, EmptyText, idx, ""))

\* viper.BindEnv(key, envName): fails on an empty key, else binds
BindEnvFails(key) == key = EmptyText

BindEnv(w, key, envName, idx) ==
    IF BindEnvFails(key)
    THEN Log(w, Ev("bindEnv", "", key, envName, idx, "missing key to bind to"))
    ELSE Log([w EXCEPT !.vEnv = (key :> envName) @@ @],
             Ev("bindEnv", "", key, envName, idx, ""))

\* viper.BindPFlag(key, pflag.Lookup(flagname)): fails on a nil flag
BindPFlagFails(w, flagname) == flagname \notin DOMAIN w.flags

BindPFlag(w, key, flagname, idx) ==
    IF BindPFlagFails(w, flagname)
    THEN Log(w, Ev("bindFlag", "", key, flagname, idx, "flag is nil"))
    ELSE Log([w EXCEPT !.vPFlags = (key :> flagname) @@ @],
             Ev("bindFlag", "", key, flagname, idx, ""))

NoValue == [kind |-> "nil", val |-> ""]

\* viper.Get(key): a bound flag the user passed, else a bound environment
\* variable that is set, else the files, else the default
Get(w, key) ==
    IF key \in DOMAIN w.vPFlags /\ w.flags[w.vPFlags[key]].changed
    THEN w.flags[w.vPFlags[key]].value
    ELSE IF key \in DOMAIN w.vEnv /\ w.vEnv[key] \in DOMAIN w.osEnv
    THEN w.osEnv[w.vEnv[key]]
    ELSE IF key \in DOMAIN w.vConfig
    THEN w.vConfig[key]
    ELSE IF key \in DOMAIN w.vDefaults
    THEN w.vDefaults[key]
    ELSE NoValue

\* ------------------------------------------------------------- validators
\* viper.GetUint on the values the model uses
ToUint(v) ==
    CASE v.val = "8080" -> 8080
      [] v.val = "80" -> 80
      [] v.val = "6000" -> 6000
      [] v.val = "7000" -> 7000
      [] v.val = "9000" -> 9000
      [] v.val = "9500" -> 9500
      [] OTHER -> 0

PortMin == 1024
PortMax == 65535

\* README checkValidPortNumber: an error unless 1024 <= port <= 65535
checkValidPortNumber(w, key) ==
    LET port == ToUint(Get(w, key))
    IN IF port < PortMin \/ port > PortMax THEN "not in range 1024..65535" ELSE ""

\* item.Validate(key): "" stands for a nil error
Validate(w, item) ==
    IF item.Validate = PortValidation THEN checkValidPortNumber(w, item.Key) ELSE ""

\* --------------------------------------------------------- package auconfig
\* mutant: a fail that returns to its caller
failReturns(w, err) == Log(w, Ev("fail", PkgFail, EmptyText, EmptyText, 0, err))

\* func fail(err error)
fail(w, err) == Panic(Log(w, Ev("fail", PkgFail, EmptyText, EmptyText, 0, err)), err)

\* a call of the variable failFunction
CallFailFunction(w, key, err) ==
    LET w1 == Log(w, Ev("fail", w.failFunction, key, EmptyText, 0, err))
    IN IF w.failFunction = PkgFail THEN Panic(w1, err)
       ELSE IF FailFuncReturns(w.failFunction) THEN w1
       ELSE Panic(w1, err)

\* a call of the variable warnFunction
CallWarnFunction(w, key, idx) ==
    Log(w, Ev("warn", w.warnFunction, key, EmptyText, idx, ""))

EffectiveFlagName(item) ==
    IF item.FlagName = EmptyText THEN item.Key ELSE item.FlagName

\* mutant: the flag is registered with the item's default
initializeFlagWithDefault(w, i) ==
    LET item == w.configItems[i]
    IN IF IsSupported(item.Default)
       THEN AddFlag(w, EffectiveFlagName(item), item.Default, "", i)
       ELSE CallWarnFunction([w EXCEPT !.noFlags = @ \cup {item.Key}], item.Key, i)

\* mutant: the key of an unsupported item is not recorded
initializeFlagNoRecord(w, i) ==
    LET item == w.configItems[i]
    IN IF IsSupported(item.Default)
       THEN AddFlag(w, EffectiveFlagName(item), ZeroValue(item.Default.kind), "", i)
       ELSE CallWarnFunction(w, item.Key, i)

\* mutant: the effective flag name is written back into the item
initializeFlagBackfill(w, i) ==
    LET item == w.configItems[i]
        w0 == [w EXCEPT !.configItems[i].FlagName = EffectiveFlagName(item)]
    IN IF IsSupported(item.Default)
       THEN AddFlag(w0, EffectiveFlagName(item), ZeroValue(item.Default.kind), "", i)
       ELSE CallWarnFunction([w0 EXCEPT !.noFlags = @ \cup {item.Key}], item.Key, i)

\* mutant: the key of every item is recorded as having no flag
initializeFlagRecordAll(w, i) ==
    LET item == w.configItems[i]
        w0 == [w EXCEPT !.noFlags = @ \cup {item.Key}]
    IN IF IsSupported(item.Default)
       THEN AddFlag(w0, EffectiveFlagName(item), ZeroValue(item.Default.kind), "", i)
       ELSE CallWarnFunction(w0, item.Key, i)

\* the body of the loop of initializeFlags
initializeFlag(w, i) ==
    LET item == w.configItems[i]
    IN IF IsSupported(item.Default)
       THEN AddFlag(w, EffectiveFlagName(item), ZeroValue(item.Default.kind), "", i)
       ELSE CallWarnFunction([w EXCEPT !.noFlags = @ \cup {item.Key}], item.Key, i)

RECURSIVE initializeFlagsFrom(_, _)
initializeFlagsFrom(w, i) ==
    IF w.panicked \/ i > Len(w.configItems) THEN w
    ELSE initializeFlagsFrom(initializeFlag(w, i), i + 1)

initializeFlags(w, defaultConfigPath, defaultSecretsPath) ==
    LET w1 == StringVar(w, "configPath", FlagConfigPath, defaultConfigPath)
        w2 == IF w1.panicked THEN w1
              ELSE StringVar(w1, "secretsPath", FlagSecretsPath, defaultSecretsPath)
    IN initializeFlagsFrom(w2, 1)

bindFlag(w, key, flagname, idx) ==
    LET w1 == BindPFlag(w, key, flagname, idx)
    IN IF BindPFlagFails(w, flagname)
       THEN CallFailFunction(w1, key, "could not bind configuration flag")
       ELSE w1

RECURSIVE setupFlagsFrom(_, _)
setupFlagsFrom(w, i) ==
    IF w.panicked \/ i > Len(w.configItems) THEN w
    ELSE LET item == w.configItems[i]
         IN setupFlagsFrom(
                IF item.Key \notin w.noFlags
                THEN bindFlag(w, item.Key, EffectiveFlagName(item), i)
                ELSE w,
                i + 1)

\* mutant: the keys recorded as having no flag are bound too
RECURSIVE setupFlagsAllFrom(_, _)
setupFlagsAllFrom(w, i) ==
    IF w.panicked \/ i > Len(w.configItems) THEN w
    ELSE setupFlagsAllFrom(
             bindFlag(w, w.configItems[i].Key, EffectiveFlagName(w.configItems[i]), i),
             i + 1)

setupFlagsAll(w) == setupFlagsAllFrom(w, 1)

\* mutant: no flag is bound
setupFlagsNone(w) == w

setupFlags(w) == setupFlagsFrom(w, 1)

RECURSIVE setupDefaultsFrom(_, _)
setupDefaultsFrom(w, i) ==
    IF i > Len(w.configItems) THEN w
    ELSE setupDefaultsFrom(
             SetDefault(w, w.configItems[i].Key, w.configItems[i].Default, i), i + 1)

\* mutant: a key that has a default keeps it
RECURSIVE setupDefaultsKeepFirstFrom(_, _)
setupDefaultsKeepFirstFrom(w, i) ==
    IF i > Len(w.configItems) THEN w
    ELSE setupDefaultsKeepFirstFrom(
             IF w.configItems[i].Key \in DOMAIN w.vDefaults
             THEN w
             ELSE SetDefault(w, w.configItems[i].Key, w.configItems[i].Default, i),
             i + 1)

setupDefaultsKeepFirst(w) == setupDefaultsKeepFirstFrom(w, 1)

\* mutant: only defaults of the kinds that get a flag are registered
RECURSIVE setupDefaultsSupportedFrom(_, _)
setupDefaultsSupportedFrom(w, i) ==
    IF i > Len(w.configItems) THEN w
    ELSE setupDefaultsSupportedFrom(
             IF IsSupported(w.configItems[i].Default)
             THEN SetDefault(w, w.configItems[i].Key, w.configItems[i].Default, i)
             ELSE w,
             i + 1)

setupDefaultsSupportedOnly(w) == setupDefaultsSupportedFrom(w, 1)

setupDefaults(w) == setupDefaultsFrom(w, 1)

\* mutant: the derived name also for an item that names its variable
EnvNameAlwaysDerived(item) == ConfigPrefix \o ReplaceAllString(item.Key)

\* the name setupEnv binds the item's key to
EnvNameOf(item) ==
    IF item.EnvName = EmptyText
    THEN ConfigPrefix \o ReplaceAllString(item.Key)
    ELSE item.EnvName

RECURSIVE setupEnvFrom(_, _)
setupEnvFrom(w, i) ==
    IF i > Len(w.configItems) THEN w
    ELSE setupEnvFrom(
             BindEnv(w, w.configItems[i].Key, EnvNameOf(w.configItems[i]), i), i + 1)

\* mutant: a failed environment binding is reported through failFunction
RECURSIVE setupEnvStrictFrom(_, _)
setupEnvStrictFrom(w, i) ==
    IF w.panicked \/ i > Len(w.configItems) THEN w
    ELSE LET item == w.configItems[i]
             w1 == BindEnv(w, item.Key, EnvNameOf(item), i)
         IN setupEnvStrictFrom(
                IF BindEnvFails(item.Key)
                THEN CallFailFunction(w1, item.Key, "could not bind environment variable")
                ELSE w1,
                i + 1)

setupEnvStrict(w) == setupEnvStrictFrom(w, 1)

setupEnv(w) == setupEnvFrom(w, 1)

RECURSIVE validateFrom(_, _)
validateFrom(w, i) ==
    IF w.panicked \/ i > Len(w.configItems) THEN w
    ELSE LET item == w.configItems[i]
             err == Validate(w, item)
             w1 == Log(w, Ev("validate", "", item.Key, EmptyText, i, err))
         IN validateFrom(IF err # "" THEN fail(w1, err) ELSE w1, i + 1)

validate(w) == validateFrom(w, 1)

\* the files performLoad reads: config.* and secrets.*, a value of secrets.*
\* replacing the one of config.*
performLoad(w) ==
    Log([w EXCEPT !.vConfig = w.osFiles.secrets @@ w.osFiles.config],
        Ev("performLoad", "", EmptyText, EmptyText, 0, ""))

\* func Load()
Load(w) ==
    LET w1 == performLoad(w)
    IN IF w1.panicked THEN w1 ELSE validate(w1)

\* mutant: the environment is bound too
SetupDefaultsOnlyWithEnv(w, items, failFunc, warnFunc) ==
    setupEnv(setupDefaults([w EXCEPT !.configItems = items,
                                     !.failFunction = failFunc,
                                     !.warnFunction = warnFunc]))

\* mutant: the flags are registered too
SetupDefaultsOnlyWithFlags(w, items, failFunc, warnFunc) ==
    LET w1 == initializeFlags([w EXCEPT !.configItems = items,
                                        !.failFunction = failFunc,
                                        !.warnFunction = warnFunc],
                              EmptyText, EmptyText)
    IN IF w1.panicked THEN w1 ELSE setupDefaults(w1)

\* func SetupDefaultsOnly(items, failFunc, warnFunc)
SetupDefaultsOnly(w, items, failFunc, warnFunc) ==
    setupDefaults([w EXCEPT !.configItems = items,
                            !.failFunction = failFunc,
                            !.warnFunction = warnFunc])

\* mutant: the bindings are made before the command line is parsed
SetupWithOverriddenConfigPathBindFirst(w, items, failFunc, warnFunc, defaultConfigPath, defaultSecretsPath, args) ==
    LET w0 == [w EXCEPT !.configItems = items,
                        !.failFunction = failFunc,
                        !.warnFunction = warnFunc]
        w1 == initializeFlags(w0, defaultConfigPath, defaultSecretsPath)
        w2 == IF w1.panicked THEN w1 ELSE setupFlags(setupEnv(setupDefaults(w1)))
    IN IF w2.panicked THEN w2 ELSE Parse(w2, Argv(w2, items, args))

\* func SetupWithOverriddenConfigPath(items, failFunc, warnFunc,
\*                                    defaultConfigPath, defaultSecretsPath)
SetupWithOverriddenConfigPath(w, items, failFunc, warnFunc, defaultConfigPath, defaultSecretsPath, args) ==
    LET w0 == [w EXCEPT !.configItems = items,
                        !.failFunction = failFunc,
                        !.warnFunction = warnFunc]
        w1 == initializeFlags(w0, defaultConfigPath, defaultSecretsPath)
        w2 == IF w1.panicked THEN w1 ELSE Parse(w1, Argv(w1, items, args))
        w3 == IF w2.panicked THEN w2 ELSE setupEnv(setupDefaults(w2))
    IN IF w3.panicked THEN w3 ELSE setupFlags(w3)

\* func Setup(items, failFunc, warnFunc)
Setup(w, items, failFunc, warnFunc, args) ==
    SetupWithOverriddenConfigPath(w, items, failFunc, warnFunc,
                                  EmptyText, EmptyText, args)

\* ------------------------------------------------------------ the machine
\* values the sources outside the program supply
EnvValue == [kind |-> "string", val |-> "7000"]
ConfigFileValue == [kind |-> "int", val |-> "9000"]
SecretsFileValue == [kind |-> "int", val |-> "9500"]

SourceKinds == {"env", "secrets", "config"}

\* the sources outside the program as a Load sees them: the sources named in
\* src hold a value for each of the first n items
EnvOf(items, n, src) ==
    [name \in {EnvNameOf(items[i]) : i \in 1..(IF "env" \in src THEN n ELSE 0)}
        |-> EnvValue]

FilesOf(items, n, src) ==
    [secrets |-> [k \in {items[i].Key : i \in 1..(IF "secrets" \in src THEN n ELSE 0)}
                     |-> SecretsFileValue],
     config |-> [k \in {items[i].Key : i \in 1..(IF "config" \in src THEN n ELSE 0)}
                    |-> ConfigFileValue]]

\* an unrecovered panic has ended the process
Alive == call.outcome # "panicked"

\* the startup sequence: the setup calls come before the Load calls
SettingUp == Alive /\ call.op # "Load"

NoArgs == [n |-> 0, paths |-> FALSE]

Init ==
    /\ registry \in Registries
    /\ configItems = << >>
    /\ failFunction = PkgFail
    /\ warnFunction = PkgWarn
    /\ configPath = EmptyText
    /\ secretsPath = EmptyText
    /\ configItemKeysWithNoFlags = {}
    /\ flags = EmptyMap
    /\ vDefaults = EmptyMap
    /\ vEnv = EmptyMap
    /\ vPFlags = EmptyMap
    /\ vConfig = EmptyMap
    /\ osEnv = EmptyMap
    /\ osFiles = [secrets |-> EmptyMap, config |-> EmptyMap]
    /\ call = [op |-> "none", outcome |-> "none", twice |-> FALSE]
    /\ trace = << >>

\* the call returns (or panics) and leaves the state w; call.twice marks a
\* SetupDefaultsOnly that directly follows a SetupDefaultsOnly
Commit(w, op) ==
    /\ configItems' = w.configItems
    /\ failFunction' = w.failFunction
    /\ warnFunction' = w.warnFunction
    /\ configPath' = w.configPath
    /\ secretsPath' = w.secretsPath
    /\ configItemKeysWithNoFlags' = w.noFlags
    /\ flags' = w.flags
    /\ vDefaults' = w.vDefaults
    /\ vEnv' = w.vEnv
    /\ vPFlags' = w.vPFlags
    /\ vConfig' = w.vConfig
    /\ osEnv' = w.osEnv
    /\ osFiles' = w.osFiles
    /\ trace' = w.trace
    /\ call' = [op |-> op,
                outcome |-> IF w.panicked THEN "panicked" ELSE "returned",
                twice |-> op = "SetupDefaultsOnly" /\ call.op = "SetupDefaultsOnly"]
    /\ UNCHANGED registry

SetupDefaultsOnlyCall ==
    /\ SettingUp
    /\ \E cb \in Callbacks :
        Commit(SetupDefaultsOnly(World, registry, cb[1], cb[2]), "SetupDefaultsOnly")

SetupCall ==
    /\ SettingUp
    /\ \E cb \in Callbacks, n \in 0..Len(registry), paths \in BOOLEAN :
        Commit(Setup(World, registry, cb[1], cb[2], [n |-> n, paths |-> paths]),
               "Setup")

\* integration tests: default paths instead of command line parameters
SetupWithOverriddenConfigPathCall ==
    /\ SettingUp
    /\ \E cb \in Callbacks :
        Commit(SetupWithOverriddenConfigPath(World, registry, cb[1], cb[2],
                                             DirEtc, DirRun, NoArgs),
               "SetupWithOverriddenConfigPath")

LoadCall ==
    /\ Alive
    /\ \E n \in 0..Len(registry), src \in SUBSET SourceKinds :
        /\ (n = 0) = (src = {})
        /\ Commit(Load([World EXCEPT !.osEnv = EnvOf(registry, n, src),
                                     !.osFiles = FilesOf(registry, n, src)]),
                  "Load")

Next ==
    \/ SetupDefaultsOnlyCall
    \/ SetupCall
    \/ SetupWithOverriddenConfigPathCall
    \/ LoadCall

Spec == Init /\ [][Next]_vars

\* ------------------------------------------------------------- properties
EventsOf(tag) == SelectSeq(trace, LAMBDA e : e.ev = tag)

IndexOf(tag) == {j \in 1..Len(trace) : trace[j].ev = tag}

FullSetupOps == {"Setup", "SetupWithOverriddenConfigPath"}

\* a full setup call has returned (flags are registered by nothing else, and
\* a full setup that panics ends the process)
FullSetupReturned ==
    /\ FlagConfigPath \in DOMAIN flags
    /\ ~(call.op \in FullSetupOps /\ call.outcome = "panicked")

\* C1: in a Load, after the load step, the validators run in registry order,
\* each at most once and with its own item's key, all of them when none fails;
\* once a validator returns an error no validator of a later item runs.
C1_ValidatorsInOrderStopAtFirstError ==
    call.op = "Load" =>
        LET v == EventsOf("validate")
        IN /\ Len(v) <= Len(configItems)
           /\ \A j \in 1..Len(v) :
                /\ v[j].idx = j
                /\ v[j].key = configItems[j].Key
                /\ v[j].err # "" => j = Len(v)
           /\ (\A j \in 1..Len(v) : v[j].err = "") => Len(v) = Len(configItems)
           /\ \A a \in IndexOf("validate"), b \in IndexOf("performLoad") : b < a

\* a Load in which the first item's validator failed and a later item exists
C1_Witness ==
    /\ call.op = "Load"
    /\ Len(configItems) > 1
    /\ Len(EventsOf("validate")) = 1
    /\ EventsOf("validate")[1].err # ""

\* C2: when a validator returns an error during Load, the fail callback of the
\* most recent setup call is invoked exactly once, with that error, and
\* nothing but that callback ends the run.
C2_CallerFailInvokedOnce ==
    (call.op = "Load" /\ \E j \in 1..Len(trace) :
                            trace[j].ev = "validate" /\ trace[j].err # "") =>
        LET f == EventsOf("fail")
            v == EventsOf("validate")
        IN /\ Len(f) = 1
           /\ f[1].fn = failFunction
           /\ f[1].fn \in CallerFailFuncs
           /\ f[1].err = v[Len(v)].err
           /\ FailFuncReturns(failFunction) => call.outcome = "returned"

\* the names and values the claims speak of, stated apart from the code
ItemFlag(item) == IF Len(item.FlagName) = 0 THEN item.Key ELSE item.FlagName

Sanitised(key) ==
    [j \in 1..Len(key) |-> IF key[j] \in LowerAlnum THEN key[j] ELSE "_"]

ItemEnv(item) ==
    IF Len(item.EnvName) = 0 THEN ConfigPrefix \o Sanitised(item.Key) ELSE item.EnvName

HasSupportedKind(item) == item.Default.kind \in SupportedKinds

\* the registry invariants of the data model: keys distinct and non-empty
ValidRegistry(items) ==
    /\ \A i, j \in 1..Len(items) : items[i].Key = items[j].Key => i = j
    /\ \A i \in 1..Len(items) : items[i].Key # EmptyText

DistinctKeys(items) ==
    \A i, j \in 1..Len(items) : items[i].Key = items[j].Key => i = j

FlagPassed(name) == name \in DOMAIN flags /\ flags[name].changed

\* the value of the highest-precedence source that is set for the item
HighestSource(item) ==
    IF FlagPassed(ItemFlag(item)) THEN flags[ItemFlag(item)].value
    ELSE IF ItemEnv(item) \in DOMAIN osEnv THEN osEnv[ItemEnv(item)]
    ELSE IF item.Key \in DOMAIN osFiles.secrets THEN osFiles.secrets[item.Key]
    ELSE IF item.Key \in DOMAIN osFiles.config THEN osFiles.config[item.Key]
    ELSE item.Default

Resolved(key) == Get(World, key)

NeutralZero(kind) ==
    [kind |-> kind,
     val |-> IF kind = "string" THEN ""
             ELSE IF kind = "bool" THEN "false"
             ELSE IF kind = "[]string" THEN "[]"
             ELSE "0"]

\* what resolution yields for a key from the sources below the flag
BelowFlag(key) ==
    IF key \in DOMAIN vEnv /\ vEnv[key] \in DOMAIN osEnv THEN osEnv[vEnv[key]]
    ELSE IF key \in DOMAIN vConfig THEN vConfig[key]
    ELSE vDefaults[key]

\* C4: after a full setup, the flag of every item of a supported kind has the
\* neutral zero value of the kind as its registered default, and a flag the
\* user did not pass does not override: the key it is bound to resolves to
\* the environment, file or default value (default true stays true).
C4_NeutralFlagDefault ==
    FullSetupReturned =>
        \A i \in 1..Len(configItems) :
            HasSupportedKind(configItems[i]) =>
                LET item == configItems[i]
                    f == ItemFlag(item)
                IN /\ f \in DOMAIN flags
                   /\ flags[f].def = NeutralZero(item.Default.kind)
                   /\ (~flags[f].changed /\ item.Key \in DOMAIN vPFlags
                         /\ vPFlags[item.Key] = f) =>
                        /\ Resolved(item.Key) = BelowFlag(item.Key)
                        /\ (DistinctKeys(configItems)
                              /\ item.Key \notin DOMAIN vConfig
                              /\ ~(item.Key \in DOMAIN vEnv /\ vEnv[item.Key] \in DOMAIN osEnv)) =>
                             Resolved(item.Key) = item.Default

\* the boolean item with default true, its flag registered with false and not
\* passed, resolves to true
C4_Witness ==
    /\ FullSetupReturned
    /\ \E i \in 1..Len(configItems) : configItems[i] = ItemUpper
    /\ KeyUpper \in DOMAIN flags
    /\ flags[KeyUpper].def = [kind |-> "bool", val |-> "false"]
    /\ ~flags[KeyUpper].changed
    /\ Resolved(KeyUpper) = [kind |-> "bool", val |-> "true"]

\* the last declaration of its key in the registry
LastOfKey(items, i) == \A j \in 1..Len(items) : items[j].Key = items[i].Key => j <= i

FullSetupJustReturned == call.op \in FullSetupOps /\ call.outcome = "returned"

EnvServerPort ==
    <<"C", "O", "N", "F", "I", "G", "_", "s", "e", "r", "v", "e", "r", "_", "p", "o", "r", "t">>

\* C5: a full setup binds every item's key to an environment variable name:
\* "CONFIG_" followed by the key with each character outside [a-z0-9]
\* replaced by "_" when envName is empty, the envName unchanged otherwise.
C5_EnvName ==
    FullSetupJustReturned =>
        LET b == EventsOf("bindEnv")
        IN /\ Len(b) = Len(configItems)
           /\ \A i \in 1..Len(b) :
                LET item == configItems[i]
                IN /\ b[i].idx = i
                   /\ b[i].key = item.Key
                   /\ b[i].name = ItemEnv(item)
                   /\ item = ItemPort => b[i].name = EnvServerPort
                   /\ item = ItemPortLow => b[i].name = NamePORT
                   /\ (item.Key # EmptyText /\ LastOfKey(configItems, i)) =>
                        (item.Key \in DOMAIN vEnv /\ vEnv[item.Key] = ItemEnv(item))

C5_Witness ==
    /\ FullSetupJustReturned
    /\ \E i, j \in 1..Len(configItems) :
        /\ configItems[i] = ItemPort
        /\ configItems[j] = ItemPortLow
        /\ i < j
    /\ vEnv[KeyServerPort] = NamePORT

EnvUpperPreserved ==
    <<"C", "O", "N", "F", "I", "G", "_", "S", "e", "r", "v", "e", "r", "_", "P", "o", "r", "t">>

EnvUpperReplaced ==
    <<"C", "O", "N", "F", "I", "G", "_", "_", "e", "r", "v", "e", "r", "_", "_", "o", "r", "t">>

\* C6 as stated: upper-case letters of the key are kept in the derived
\* environment variable name, Server.Port giving CONFIG_Server_Port.
C6_UppercasePreserved ==
    FullSetupJustReturned =>
        \A j \in 1..Len(trace) :
            (trace[j].ev = "bindEnv" /\ configItems[trace[j].idx].EnvName = EmptyText) =>
                /\ \A k \in 1..Len(trace[j].key) :
                      trace[j].key[k] \in UpperLetters =>
                          trace[j].name[Len(ConfigPrefix) + k] = trace[j].key[k]
                /\ trace[j].key = KeyUpper => trace[j].name = EnvUpperPreserved

\* C6 (amended): upper-case letters of the key are replaced by "_" like every
\* other character outside [a-z0-9], Server.Port giving CONFIG__erver__ort.
C6_UppercaseReplaced ==
    FullSetupJustReturned =>
        \A j \in 1..Len(trace) :
            (trace[j].ev = "bindEnv" /\ configItems[trace[j].idx].EnvName = EmptyText) =>
                /\ Len(trace[j].name) = Len(ConfigPrefix) + Len(trace[j].key)
                /\ \A k \in 1..Len(trace[j].key) :
                      trace[j].key[k] \in UpperLetters =>
                          trace[j].name[Len(ConfigPrefix) + k] = "_"
                /\ trace[j].key = KeyUpper => trace[j].name = EnvUpperReplaced

C6_Witness ==
    /\ FullSetupJustReturned
    /\ \E j \in 1..Len(trace) :
        /\ trace[j].ev = "bindEnv"
        /\ trace[j].key = KeyUpper
        /\ trace[j].name = EnvUpperReplaced
    /\ KeyUpper \in DOMAIN vEnv
    /\ vEnv[KeyUpper] = EnvUpperReplaced

EventsAt(tag, i) == {j \in 1..Len(trace) : trace[j].ev = tag /\ trace[j].idx = i}

\* C7: a full setup registers no flag for an item whose default is of an
\* unsupported kind, calls the caller's warn exactly once for it, naming its
\* key, attempts no flag binding for that key, does not call fail, and still
\* registers the item's default and its environment binding.
C7_UnsupportedKind ==
    FullSetupJustReturned =>
        \A i \in 1..Len(configItems) :
            ~HasSupportedKind(configItems[i]) =>
                LET item == configItems[i]
                IN /\ EventsAt("registerFlag", i) = {}
                   /\ Cardinality(EventsAt("warn", i)) = 1
                   /\ \A j \in EventsAt("warn", i) :
                        /\ trace[j].fn = warnFunction
                        /\ trace[j].fn \in CallerWarnFuncs
                        /\ trace[j].key = item.Key
                   /\ \A j \in IndexOf("bindFlag") : trace[j].key # item.Key
                   /\ IndexOf("fail") = {}
                   /\ Cardinality(EventsAt("setDefault", i)) = 1
                   /\ \A j \in EventsAt("setDefault", i) : trace[j].key = item.Key
                   /\ LastOfKey(configItems, i) => vDefaults[item.Key] = item.Default
                   /\ Cardinality(EventsAt("bindEnv", i)) = 1
                   /\ \A j \in EventsAt("bindEnv", i) :
                        /\ trace[j].key = item.Key
                        /\ trace[j].name = ItemEnv(item)
                        /\ item.Key # EmptyText => trace[j].err = ""
                   /\ item.Key # EmptyText => item.Key \in DOMAIN vEnv

\* a full setup of a structured item next to an item that gets its flag bound
C7_Witness ==
    /\ FullSetupJustReturned
    /\ \E i \in 1..Len(configItems) : configItems[i] = ItemStruct
    /\ IndexOf("bindFlag") # {}
    /\ KeyProfiles \in configItemKeysWithNoFlags
    /\ vDefaults[KeyProfiles] = ItemStruct.Default

\* C8: after SetupDefaultsOnly with a registry of distinct keys the store's
\* default of every item's key is the item's declared default, kind and value.
C8_DefaultsVerbatim ==
    (call.op = "SetupDefaultsOnly" /\ DistinctKeys(configItems)) =>
        /\ call.outcome = "returned"
        /\ \A i \in 1..Len(configItems) :
            /\ configItems[i].Key \in DOMAIN vDefaults
            /\ vDefaults[configItems[i].Key] = configItems[i].Default

C8_Witness ==
    /\ call.op = "SetupDefaultsOnly"
    /\ DistinctKeys(configItems)
    /\ Len(configItems) > 1
    /\ \E i \in 1..Len(configItems) : configItems[i] = ItemStruct
    /\ vDefaults[KeyProfiles] = [kind |-> "struct", val |-> "{}"]

\* C9: SetupDefaultsOnly only registers defaults: it registers no flag, parses
\* nothing, binds no environment variable and no flag, runs no validator,
\* calls neither warn nor fail, and leaves the no-flag set and the config and
\* secrets paths as they were.
C9_DefaultsOnlyFrame ==
    [][call'.op = "SetupDefaultsOnly" =>
          /\ flags' = flags
          /\ vEnv' = vEnv
          /\ vPFlags' = vPFlags
          /\ vConfig' = vConfig
          /\ configItemKeysWithNoFlags' = configItemKeysWithNoFlags
          /\ configPath' = configPath
          /\ secretsPath' = secretsPath
          /\ Len(trace') = Len(configItems')
          /\ \A j \in 1..Len(trace') : trace'[j].ev = "setDefault"]_vars

\* a SetupDefaultsOnly after a full setup that registered flags, recorded a
\* key without flag and took paths
C9_Witness ==
    /\ call.op = "SetupDefaultsOnly"
    /\ Len(configItems) > 0
    /\ FlagConfigPath \in DOMAIN flags
    /\ configItemKeysWithNoFlags # {}
    /\ configPath # EmptyText
    /\ vEnv # EmptyMap

\* C10: a SetupDefaultsOnly that follows a SetupDefaultsOnly with the same
\* registry leaves the store's defaults as the first left them and fails in
\* no way (no flag is registered again).
C10_DefaultsOnlyTwice ==
    [][(call.op = "SetupDefaultsOnly" /\ call'.op = "SetupDefaultsOnly"
          /\ configItems' = configItems) =>
          /\ vDefaults' = vDefaults
          /\ flags' = flags
          /\ call'.outcome = "returned"
          /\ \A j \in 1..Len(trace') : trace'[j].ev \notin {"fail", "panic"}]_vars

C10_Witness ==
    /\ call.op = "SetupDefaultsOnly"
    /\ call.twice
    /\ call.outcome = "returned"
    /\ Len(configItems) > 1
    /\ \A i \in 1..Len(configItems) : configItems[i].Key \in DOMAIN vDefaults

\* the first full setup of the process (a later one panics when it registers
\* config-path again)
FirstFullSetup ==
    /\ call.op \in FullSetupOps
    /\ Len(trace) > 0
    /\ trace[1].ev = "registerFlag"

HasDuplicateKey(items) ==
    \E i, j \in 1..Len(items) : i < j /\ items[i].Key = items[j].Key

\* two items that get a flag share its name
FlagNameClash(items) ==
    \E i, j \in 1..Len(items) :
        /\ i < j
        /\ HasSupportedKind(items[i])
        /\ HasSupportedKind(items[j])
        /\ ItemFlag(items[i]) = ItemFlag(items[j])

\* some declaration of the item's key has a default of an unsupported kind
KeyHasUnsupported(items, key) ==
    \E j \in 1..Len(items) : items[j].Key = key /\ ~HasSupportedKind(items[j])

\* C11 as stated: with a key declared twice setup signals nothing (no fail,
\* no warn for the duplication, no other failure) and the later declaration's
\* default, environment binding and flag binding are the ones the store holds.
C11_LaterDeclarationWins ==
    (FirstFullSetup /\ HasDuplicateKey(configItems)) =>
        /\ call.outcome = "returned"
        /\ IndexOf("fail") = {}
        /\ \A j \in IndexOf("warn") : ~HasSupportedKind(configItems[trace[j].idx])
        /\ \A i \in 1..Len(configItems) :
            LastOfKey(configItems, i) =>
                LET item == configItems[i]
                IN /\ vDefaults[item.Key] = item.Default
                   /\ item.Key # EmptyText => vEnv[item.Key] = ItemEnv(item)
                   /\ HasSupportedKind(item) =>
                        (item.Key \in DOMAIN vPFlags /\ vPFlags[item.Key] = ItemFlag(item))

\* C11 (amended): with a key declared twice setup makes no uniqueness check
\* and calls neither fail nor warn for the duplication; it panics in the flag
\* registration exactly when two items that get a flag share the flag name;
\* when it returns, the store holds the later declaration's default and
\* environment binding, and the key is bound to the later declaration's flag
\* unless a declaration of the key is of an unsupported kind, in which case
\* the key is bound to no flag.
C11_DuplicateKeys ==
    (FirstFullSetup /\ HasDuplicateKey(configItems)) =>
        /\ IndexOf("fail") = {}
        /\ \A j \in IndexOf("warn") : ~HasSupportedKind(configItems[trace[j].idx])
        /\ (call.outcome = "panicked") = FlagNameClash(configItems)
        /\ call.outcome = "returned" =>
            \A i \in 1..Len(configItems) :
                LastOfKey(configItems, i) =>
                    LET item == configItems[i]
                    IN /\ vDefaults[item.Key] = item.Default
                       /\ item.Key # EmptyText => vEnv[item.Key] = ItemEnv(item)
                       /\ IF KeyHasUnsupported(configItems, item.Key)
                          THEN item.Key \notin DOMAIN vPFlags
                          ELSE /\ item.Key \in DOMAIN vPFlags
                               /\ vPFlags[item.Key] = ItemFlag(item)

\* server.port declared twice with different flag and environment names: the
\* store holds the second declaration's default, variable and flag
C11_Witness ==
    /\ FirstFullSetup
    /\ call.outcome = "returned"
    /\ Len(configItems) > 1
    /\ configItems[1] = ItemPort
    /\ configItems[2] = ItemPortLow
    /\ vDefaults[KeyServerPort] = ItemPortLow.Default
    /\ vEnv[KeyServerPort] = NamePORT
    /\ vPFlags[KeyServerPort] = NamePort

\* the step of a full setup an event belongs to
StepOf(e) ==
    CASE e.ev \in {"registerFlag", "warn"} -> 1
      [] e.ev = "parse" -> 2
      [] e.ev = "setDefault" -> 3
      [] e.ev = "bindEnv" -> 4
      [] e.ev \in {"bindFlag", "fail"} -> 5
      [] OTHER -> 6

\* C12: a full setup registers all flags, then parses, then registers all
\* defaults, then binds all environment variables, then binds all flags, each
\* of the last three in registry order; no flag is bound before the parse, and
\* in a Load no validator runs before the load step.
C12_SetupStepOrder ==
    /\ call.op \in FullSetupOps =>
        /\ \A a, b \in 1..Len(trace) :
            a < b =>
                /\ StepOf(trace[a]) <= StepOf(trace[b])
                /\ (StepOf(trace[a]) = StepOf(trace[b]) /\ trace[a].idx > 0) =>
                      trace[a].idx < trace[b].idx
        /\ \A b \in IndexOf("bindFlag") : \E a \in IndexOf("parse") : a < b
        /\ call.outcome = "returned" =>
            /\ Cardinality(IndexOf("parse")) = 1
            /\ \A i \in 1..Len(configItems) :
                /\ Cardinality(EventsAt("registerFlag", i) \cup EventsAt("warn", i)) = 1
                /\ Cardinality(EventsAt("setDefault", i)) = 1
                /\ Cardinality(EventsAt("bindEnv", i)) = 1
                /\ Cardinality(EventsAt("bindFlag", i)) <= 1
    /\ call.op = "Load" =>
        \A b \in IndexOf("validate") : \E a \in IndexOf("performLoad") : a < b

\* a full setup of two items that bound two flags
C12_Witness ==
    /\ FullSetupJustReturned
    /\ Len(configItems) > 1
    /\ Cardinality(IndexOf("bindFlag")) > 1
    /\ Cardinality(IndexOf("registerFlag")) > 3

SetupOps == FullSetupOps \cup {"SetupDefaultsOnly"}

\* C13: every flag binding of a full setup targets the item's effective flag
\* name (flagName, else key), a flag of that name was registered earlier in
\* the same run, the binding succeeds, and no setup call invokes fail; a
\* binding that failed would be followed by a call of the caller's fail for
\* that key.
C13_BindTargetsRegisteredFlag ==
    /\ call.op \in SetupOps => IndexOf("fail") = {}
    /\ call.op \in FullSetupOps =>
        \A b \in IndexOf("bindFlag") :
            LET e == trace[b]
                item == configItems[e.idx]
            IN /\ e.key = item.Key
               /\ e.name = ItemFlag(item)
               /\ e.err = ""
               /\ e.name \in DOMAIN flags
               /\ \E a \in IndexOf("registerFlag") : a < b /\ trace[a].name = e.name
               /\ e.err # "" =>
                    /\ b < Len(trace)
                    /\ trace[b + 1].ev = "fail"
                    /\ trace[b + 1].fn = failFunction
                    /\ trace[b + 1].key = e.key

\* a full setup that bound a key to a flag named by flagName and a key to the
\* flag named like the key
C13_Witness ==
    /\ FullSetupJustReturned
    /\ \E b \in IndexOf("bindFlag") :
        trace[b].key = KeyServerPort /\ trace[b].name = NamePort
    /\ \E b \in IndexOf("bindFlag") : trace[b].name = trace[b].key
    /\ vPFlags[KeyServerPort] = NamePort

\* C14: when the environment binding of an item fails, which happens for an
\* empty key, setup calls neither fail nor warn for it, returns normally,
\* goes on to bind the environment variables of all later items and then
\* binds the flags.
C14_EnvBindFailureIgnored ==
    call.op \in FullSetupOps =>
        \A a \in IndexOf("bindEnv") :
            /\ (trace[a].err # "") = (trace[a].key = EmptyText)
            /\ trace[a].err # "" =>
                LET i == trace[a].idx
                IN /\ IndexOf("fail") = {}
                   /\ HasSupportedKind(configItems[i]) => EventsAt("warn", i) = {}
                   /\ call.outcome = "returned"
                   /\ EmptyText \notin DOMAIN vEnv
                   /\ \A k \in (i + 1)..Len(configItems) :
                        /\ Cardinality(EventsAt("bindEnv", k)) = 1
                        /\ \A b \in EventsAt("bindEnv", k) : a < b
                        /\ configItems[k].Key # EmptyText =>
                             configItems[k].Key \in DOMAIN vEnv
                   /\ \A k \in 1..Len(configItems) :
                        configItems[k].Key \notin configItemKeysWithNoFlags =>
                            \E b \in EventsAt("bindFlag", k) : a < b /\ trace[b].err = ""

\* an item with an empty key first, then an item whose variable and flag are
\* bound
C14_Witness ==
    /\ FullSetupJustReturned
    /\ Len(configItems) > 1
    /\ configItems[1].Key = EmptyText
    /\ configItems[2].Key # EmptyText
    /\ \E a \in EventsAt("bindEnv", 1) : trace[a].err # ""
    /\ configItems[2].Key \in DOMAIN vEnv
    /\ configItems[2].Key \in DOMAIN vPFlags
    /\ EmptyText \in DOMAIN vPFlags

\* the item as the caller declared it, but for an empty envName filled in
\* with the derived name
SameItemButEnvName(held, declared) ==
    /\ held.Key = declared.Key
    /\ held.Default = declared.Default
    /\ held.Description = declared.Description
    /\ held.FlagName = declared.FlagName
    /\ held.Validate = declared.Validate
    /\ \/ held.EnvName = declared.EnvName
       \/ declared.EnvName = EmptyText /\ held.EnvName = ItemEnv(declared)

\* C15: whatever setup and Load calls were made, the registry the package
\* holds is the caller's: same length and order, every item's key, default,
\* description, flagName and validate as declared, envName as declared or,
\* when declared empty, the derived name.
C15_RegistryUnchanged ==
    LET asDeclared ==
            /\ Len(configItems) = Len(registry)
            /\ \A i \in 1..Len(registry) : SameItemButEnvName(configItems[i], registry[i])
    IN /\ call.op \in SetupOps => asDeclared
       /\ configItems # << >> => asDeclared

\* after a full setup that derived an environment variable name and a Load,
\* the items are as declared
C15_Witness ==
    /\ call.op = "Load"
    /\ FullSetupReturned
    /\ Len(configItems) > 1
    /\ \E i \in 1..Len(configItems) :
        /\ configItems[i].EnvName = EmptyText
        /\ configItems[i].FlagName = EmptyText
        /\ configItems[i].Key \in DOMAIN vEnv
        /\ vEnv[configItems[i].Key] # EmptyText
    /\ \A i \in 1..Len(registry) : SameItemButEnvName(configItems[i], registry[i])

\* what C16 says of the state a full setup leaves
SkippedIffUnsupported ==
    /\ \A i \in 1..Len(configItems) :
        (EventsAt("bindFlag", i) = {}) = ~HasSupportedKind(configItems[i])
    /\ configItemKeysWithNoFlags =
         {configItems[i].Key : i \in {j \in 1..Len(configItems) :
                                          ~HasSupportedKind(configItems[j])}}
    /\ \A i \in 1..Len(configItems) :
        HasSupportedKind(configItems[i]) =>
            /\ configItems[i].Key \in DOMAIN vPFlags
            /\ vPFlags[configItems[i].Key] = ItemFlag(configItems[i])

\* C16 as stated: after any full setup, duplicate keys or not, flag binding
\* skips an item exactly when the item's own default is of an unsupported
\* kind, the no-flag set holds exactly the keys of such items, and every
\* other item's key is bound to its flag.
C16_SkippedIffOwnKindUnsupported ==
    FullSetupJustReturned => SkippedIffUnsupported

\* C16 (amended): the same for a full setup that returns with a registry of
\* distinct keys; a full setup that follows a full setup of the process
\* panics at the registration of config-path and binds nothing.
C16_SkippedIffUnsupportedDistinctKeys ==
    /\ (FullSetupJustReturned /\ DistinctKeys(configItems)) => SkippedIffUnsupported
    /\ (call.op \in FullSetupOps /\ ~FirstFullSetup) =>
        /\ call.outcome = "panicked"
        /\ IndexOf("bindFlag") = {}

\* a structured item and an item of a supported kind under different keys
C16_Witness ==
    /\ FullSetupJustReturned
    /\ DistinctKeys(configItems)
    /\ Len(configItems) > 1
    /\ \E i, j \in 1..Len(configItems) :
        /\ ~HasSupportedKind(configItems[i])
        /\ HasSupportedKind(configItems[j])
        /\ configItems[i].Key \in configItemKeysWithNoFlags
        /\ configItems[i].Key \notin DOMAIN vPFlags
        /\ configItems[j].Key \notin configItemKeysWithNoFlags
        /\ vPFlags[configItems[j].Key] = ItemFlag(configItems[j])

====
